---- MODULE Spec2Model ----
(***************************************************************************)
(* Model of legal_extractor_app.py: the text-analysis helpers              *)
(* (extract_clauses, find_risky_clauses, compare_with_standard_clauses,    *)
(* summarize_text, rewrite_clause_with_ai) and the Streamlit button        *)
(* handlers that call them.                                                *)
(*                                                                         *)
(* A Python str is a sequence of one-character strings.  Every helper is   *)
(* an operator computed the way the code computes it; each specification   *)
(* draws the inputs of one helper in its initial states and applies it.    *)
(***************************************************************************)
EXTENDS Integers, Sequences, FiniteSets, TLC

VARIABLES
    pc,                 \* position of the modelled call or handler
    op,                 \* entry point: "call" (the function) or "button" (its handler)
    shown,              \* what the page last displayed
    text,               \* extract_clauses: its argument
    extracted_clauses,  \* extract_clauses: the dict it returns
    clauses,            \* the list given to find_risky_clauses / compare_with_standard_clauses
    risky_keywords,     \* find_risky_clauses: its second argument
    risky,              \* find_risky_clauses: the list it returns
    text_len,           \* summarize_text: len(text)
    summarizer_calls,   \* summarize_text: the calls of summarizer, in order
    results,            \* summarize_text: the list results
    summary,            \* summarize_text: the string it returns
    standard_clauses,   \* compare_with_standard_clauses: its second argument
    comparisons,        \* compare_with_standard_clauses: the list it returns
    clause_to_rewrite,  \* rewrite_clause_with_ai: its argument / the text area
    chat_calls,         \* number of openai.ChatCompletion.create calls
    rewritten,          \* rewrite_clause_with_ai: the string it returns
    uploaded_file,      \* st.file_uploader: <<>> or <<text of the PDF>>
    session_state       \* st.session_state

vars == <<pc, op, shown, text, extracted_clauses, clauses, risky_keywords, risky,
          text_len, summarizer_calls, results, summary, standard_clauses,
          comparisons, clause_to_rewrite, chat_calls, rewritten, uploaded_file,
          session_state>>

extractVars == <<text, extracted_clauses>>
riskVars == <<clauses, risky_keywords, risky>>
summarizeVars == <<text_len, summarizer_calls, results, summary>>
compareVars == <<standard_clauses, comparisons>>
rewriteVars == <<clause_to_rewrite, chat_calls, rewritten>>
appVars == <<uploaded_file, session_state>>

(***************************************************************************)
(* Bounds of the model.                                                    *)
(***************************************************************************)
MaxLen == 5          \* longest document given to extract_clauses
MaxClauseLen == 2    \* longest clause given to find_risky_clauses
MaxClauses == 2      \* most clauses given to find_risky_clauses
MaxWords == 2        \* most words in a string given to the comparison
MaxDocLen == 2       \* longest text of an uploaded PDF
MaxTextLen == 2500   \* longest text given to summarize_text

(***************************************************************************)
(* Strings.                                                                *)
(***************************************************************************)
Letters == {"a", "A", "b", "B", "c", "d"}
Whitespace == {" ", "\n", "\t"}

\* str.lower(), one character
LowerChar(c) ==
    CASE c = "A" -> "a"
      [] c = "B" -> "b"
      [] OTHER -> c

\* str.lower()
Lower(s) == [i \in 1..Len(s) |-> LowerChar(s[i])]

\* k in s
Contains(k, s) ==
    \E i \in 0..(Len(s) - Len(k)) : SubSeq(s, i + 1, i + Len(k)) = k

\* keyword.lower() in clause.lower()
KeywordIn(keyword, clause) == Contains(Lower(keyword), Lower(clause))

\* any(k.lower() in s.lower() for k in keywords)
AnyKeywordIn(keywords, s) == \E k \in keywords : KeywordIn(k, s)

MinOf(S) == CHOOSE x \in S : \A y \in S : x <= y
MaxOf(S) == CHOOSE x \in S : \A y \in S : x >= y

\* str.strip()
Strip(s) ==
    LET keep == {i \in 1..Len(s) : s[i] \notin Whitespace}
    IN  IF keep = {} THEN <<>> ELSE SubSeq(s, MinOf(keep), MaxOf(keep))

\* every string of at most n characters of S
Texts(S, n) == UNION {[1..k -> S] : k \in 0..n}

\* every sequence of at most n elements of S
SeqsUpTo(S, n) == UNION {[1..k -> S] : k \in 0..n}

(***************************************************************************)
(* extract_clauses                                                         *)
(***************************************************************************)
\* the character class [.!?]
SentenceEnd == {".", "!", "?"}

\* the separator had the pattern been \s+
AnyWhitespaceSeparator == {" ", "\n", "\t"}

\* what the pattern  +  matches
SeparatorChars == {" "}

\* The categories of clause_keywords in the dict's insertion order.  The
\* keywords are shortened to the model's alphabet; the table keeps several
\* categories, several keywords in one category and a keyword with a space
\* in it ("end of agreement").
clause_keywords ==
    << [clause |-> "Termination", keywords |-> {<<"a", "b">>, <<"a", " ", "b">>}],
       [clause |-> "Payment",     keywords |-> {<<"b">>}],
       [clause |-> "Indemnity",   keywords |-> {<<"b", "a">>}] >>

\* where a match of (?<=[.!?]) + starting at i ends
RECURSIVE MatchEnd(_, _)
MatchEnd(t, i) ==
    IF i < Len(t) /\ t[i + 1] \in SeparatorChars THEN MatchEnd(t, i + 1) ELSE i

\* whether (?<=[.!?]) + matches at i
MatchesAt(t, i) ==
    /\ i >= 2
    /\ i <= Len(t)
    /\ t[i] \in SeparatorChars
    /\ t[i - 1] \in SentenceEnd

\* re.split(r'(?<=[.!?]) +', t), scanning from position from
RECURSIVE SplitFrom(_, _)
SplitFrom(t, from) ==
    LET starts == {i \in from..Len(t) : MatchesAt(t, i)}
    IN  IF starts = {} THEN <<SubSeq(t, from, Len(t))>>
        ELSE LET i == MinOf(starts)
             IN  <<SubSeq(t, from, i - 1)>> \o SplitFrom(t, MatchEnd(t, i) + 1)

\* re.split(r'(?<=[.!?]) +', text)
ReSplit(t) == SplitFrom(t, 1)

RECURSIVE MatchedSentences(_, _)
\* [s.strip() for s in sentences if any(k.lower() in s.lower() for k in keywords)]
MatchedSentences(sentences, keywords) ==
    IF sentences = <<>> THEN <<>>
    ELSE (IF AnyKeywordIn(keywords, Head(sentences))
          THEN <<Strip(Head(sentences))>>
          ELSE <<>>) \o MatchedSentences(Tail(sentences), keywords)

RECURSIVE Unmatched(_, _)
\* the sentences that hold no keyword of keywords
Unmatched(sentences, keywords) ==
    IF sentences = <<>> THEN <<>>
    ELSE (IF AnyKeywordIn(keywords, Head(sentences)) THEN <<>> ELSE <<Head(sentences)>>)
         \o Unmatched(Tail(sentences), keywords)

RECURSIVE ExtractFirstCategoryOnly(_, _)
\* the loop had it filed every sentence under its first category only
ExtractFirstCategoryOnly(sentences, n) ==
    IF n > Len(clause_keywords) THEN <<>>
    ELSE LET matched == MatchedSentences(sentences, clause_keywords[n].keywords)
         IN  (IF matched # <<>>
              THEN <<[clause |-> clause_keywords[n].clause, sentences |-> matched]>>
              ELSE <<>>)
             \o ExtractFirstCategoryOnly(
                    Unmatched(sentences, clause_keywords[n].keywords), n + 1)

\* the loop of extract_clauses over clause_keywords.items(), from entry n
RECURSIVE ExtractFrom(_, _)
ExtractFrom(sentences, n) ==
    IF n > Len(clause_keywords) THEN <<>>
    ELSE LET matched == MatchedSentences(sentences, clause_keywords[n].keywords)
         IN  (IF matched # <<>>
              THEN <<[clause |-> clause_keywords[n].clause, sentences |-> matched]>>
              ELSE <<>>) \o ExtractFrom(sentences, n + 1)

\* extract_clauses(text): the dict as its items in insertion order
extract_clauses(t) == ExtractFrom(ReSplit(t), 1)

DocAlphabet == {"a", "A", "b", " ", "\n", ".", "!", "?"}

\* st.session_state before anything is stored in it
EmptySession ==
    [has_clauses |-> FALSE, clauses |-> <<>>, has_risky |-> FALSE, risky |-> <<>>]

\* the variables of each part while another part is modelled
IdleExtract == text = <<>> /\ extracted_clauses = <<>>
IdleRisk == clauses = <<>> /\ risky_keywords = {} /\ risky = <<>>
IdleSummarize ==
    text_len = 0 /\ summarizer_calls = <<>> /\ results = <<>> /\ summary = <<>>
IdleCompare == standard_clauses = <<>> /\ comparisons = <<>>
IdleRewrite == clause_to_rewrite = <<>> /\ chat_calls = 0 /\ rewritten = <<>>
IdleApp == uploaded_file = <<>> /\ session_state = EmptySession

InitExtract ==
    /\ pc = "ready"
    /\ text \in Texts(DocAlphabet, MaxLen)
    /\ extracted_clauses = <<>>
    /\ op = "call"
    /\ shown = "nothing"
    /\ IdleRisk /\ IdleSummarize /\ IdleCompare /\ IdleRewrite /\ IdleApp

CallExtractClauses ==
    /\ pc = "ready"
    /\ extracted_clauses' = extract_clauses(text)
    /\ pc' = "done"
    /\ UNCHANGED <<op, shown, text, riskVars, summarizeVars, compareVars,
                   rewriteVars, appVars>>

NextExtract == CallExtractClauses

SpecExtract == InitExtract /\ [][NextExtract]_vars

(***************************************************************************)
(* find_risky_clauses                                                      *)
(***************************************************************************)
RECURSIVE find_risky_clauses_case_sensitive(_, _)
\* the loop had it tested  keyword in clause  without lower()
find_risky_clauses_case_sensitive(cs, keywords) ==
    IF cs = <<>> THEN <<>>
    ELSE (IF \E k \in keywords : Contains(k, Head(cs)) THEN <<Head(cs)>> ELSE <<>>)
         \o find_risky_clauses_case_sensitive(Tail(cs), keywords)

RECURSIVE find_risky_clauses(_, _)
\* the loop of find_risky_clauses: append clause when any keyword is in it
find_risky_clauses(cs, keywords) ==
    IF cs = <<>> THEN <<>>
    ELSE (IF AnyKeywordIn(keywords, Head(cs)) THEN <<Head(cs)>> ELSE <<>>)
         \o find_risky_clauses(Tail(cs), keywords)

ClauseAlphabet == {"a", "A", "b"}
KeywordPool == {<<"a">>, <<"B">>, <<"a", "b">>}

InitRisk ==
    /\ pc = "ready"
    /\ clauses \in SeqsUpTo(Texts(ClauseAlphabet, MaxClauseLen), MaxClauses)
    /\ risky_keywords \in SUBSET KeywordPool
    /\ risky = <<>>
    /\ op = "call"
    /\ shown = "nothing"
    /\ IdleExtract /\ IdleSummarize /\ IdleCompare /\ IdleRewrite /\ IdleApp

CallFindRiskyClauses ==
    /\ pc = "ready"
    /\ risky' = find_risky_clauses(clauses, risky_keywords)
    /\ pc' = "done"
    /\ UNCHANGED <<op, shown, clauses, risky_keywords, extractVars, summarizeVars,
                   compareVars, rewriteVars, appVars>>

NextRisk == CallFindRiskyClauses

SpecRisk == InitRisk /\ [][NextRisk]_vars

(***************************************************************************)
(* summarize_text and the Summarize Document button                        *)
(*                                                                         *)
(* The text is represented by its length and a slice text[i:j] by the      *)
(* offsets it spans.  The summarizer is external: it either returns the    *)
(* summary of the chunk it was given or raises.                            *)
(***************************************************************************)
\* the chunk length in text[i:i+1000] and range(0, len(text), 1000)
chunk_size == 1000

RECURSIVE PyRange(_, _, _)
\* range(start, stop, step) as a list
PyRange(start, stop, step) ==
    IF start >= stop THEN <<>> ELSE <<start>> \o PyRange(start + step, stop, step)

\* the starts had the range stopped before a shorter last chunk
ChunkStartsOfFullChunks(len) == PyRange(0, len - chunk_size + 1, chunk_size)

\* range(0, len(text), 1000)
ChunkStarts(len) == PyRange(0, len, chunk_size)

\* text[i:i+1000]: a slice ends at the end of the text at the latest
Slice(len, i) ==
    [from |-> i, to |-> IF i + chunk_size < len THEN i + chunk_size ELSE len]

\* chunks = [text[i:i+1000] for i in range(0, len(text), 1000)]
Chunks(len) ==
    LET starts == ChunkStarts(len)
    IN  [k \in 1..Len(starts) |-> Slice(len, starts[k])]

\* summarizer(chunk, ...)[0]['summary_text'] when the call returns
SummaryOf(chunk) == [kind |-> "summary", from |-> chunk.from, to |-> chunk.to]

\* the separator of " ".join
Space == [kind |-> "space", from |-> 0, to |-> 0]

RECURSIVE Join(_)
\* " ".join(results)
Join(rs) ==
    IF rs = <<>> THEN <<>>
    ELSE IF Len(rs) = 1 THEN <<rs[1]>>
    ELSE <<rs[1], Space>> \o Join(Tail(rs))

InitSummarize ==
    /\ pc = "loop"
    /\ op \in {"call", "button"}
    /\ shown = "nothing"
    /\ text_len \in 0..MaxTextLen
    /\ summarizer_calls = <<>>
    /\ results = <<>>
    /\ summary = <<>>
    /\ IdleExtract /\ IdleRisk /\ IdleCompare /\ IdleRewrite /\ IdleApp

\* one iteration of the loop: the summarizer returns, the summary is appended
SummarizerReturns ==
    /\ pc = "loop"
    /\ Len(summarizer_calls) < Len(Chunks(text_len))
    /\ LET chunk == Chunks(text_len)[Len(summarizer_calls) + 1]
       IN  /\ summarizer_calls' = Append(summarizer_calls, [chunk |-> chunk, ok |-> TRUE])
           /\ results' = Append(results, SummaryOf(chunk))
    /\ UNCHANGED <<pc, op, shown, text_len, summary, extractVars, riskVars,
                   compareVars, rewriteVars, appVars>>

\* the iteration had the loop caught the exception and gone on
SummarizerFailsAndLoopGoesOn ==
    /\ pc = "loop"
    /\ Len(summarizer_calls) < Len(Chunks(text_len))
    /\ LET chunk == Chunks(text_len)[Len(summarizer_calls) + 1]
       IN  summarizer_calls' = Append(summarizer_calls, [chunk |-> chunk, ok |-> FALSE])
    /\ UNCHANGED <<pc, op, shown, text_len, results, summary, extractVars, riskVars,
                   compareVars, rewriteVars, appVars>>

\* one iteration of the loop: the summarizer raises; nothing catches it, so
\* summarize_text and the handler end and the page shows the exception
SummarizerFails ==
    /\ pc = "loop"
    /\ Len(summarizer_calls) < Len(Chunks(text_len))
    /\ LET chunk == Chunks(text_len)[Len(summarizer_calls) + 1]
       IN  summarizer_calls' = Append(summarizer_calls, [chunk |-> chunk, ok |-> FALSE])
    /\ pc' = "raised"
    /\ shown' = IF op = "button" THEN "exception" ELSE shown
    /\ UNCHANGED <<op, text_len, results, summary, extractVars, riskVars,
                   compareVars, rewriteVars, appVars>>

\* the loop is over: return " ".join(results); the handler writes the summary
ReturnSummary ==
    /\ pc = "loop"
    /\ Len(summarizer_calls) = Len(Chunks(text_len))
    /\ summary' = Join(results)
    /\ pc' = "done"
    /\ shown' = IF op = "button" THEN "summary" ELSE shown
    /\ UNCHANGED <<op, text_len, summarizer_calls, results, extractVars, riskVars,
                   compareVars, rewriteVars, appVars>>

NextSummarize == SummarizerReturns \/ SummarizerFails \/ ReturnSummary

SpecSummarize == InitSummarize /\ [][NextSummarize]_vars

(***************************************************************************)
(* compare_with_standard_clauses and the Compare Clauses button            *)
(*                                                                         *)
(* TfidfVectorizer() with its defaults: lowercase, tokens are the runs of  *)
(* two or more word characters, idf = ln((1 + n) / (1 + df)) + 1 over the  *)
(* n = 2 fitted strings, rows normalised; an empty vocabulary raises       *)
(* ValueError.  A term of both strings has idf 1; a term of one string has *)
(* idf ln(1.5) + 1, whose square 1.9753 is taken as 79/40.  Scores are     *)
(* kept exact (as the square of the cosine) until round() is applied.      *)
(***************************************************************************)
\* \w
WordChars == Letters

RECURSIVE TokensFrom(_, _, _)
\* re.findall(r"\b\w\w+\b", s) from position i, run being the word so far
TokensFrom(s, i, run) ==
    LET token == IF Len(run) >= 2 THEN <<run>> ELSE <<>>
    IN  IF i > Len(s) THEN token
        ELSE IF s[i] \in WordChars THEN TokensFrom(s, i + 1, Append(run, s[i]))
        ELSE token \o TokensFrom(s, i + 1, <<>>)

\* the analyzer of TfidfVectorizer: lowercase, then tokenize
Tokenize(s) == TokensFrom(Lower(s), 1, <<>>)

\* the term frequency of t
Tf(tokens, t) == Cardinality({i \in 1..Len(tokens) : tokens[i] = t})

RECURSIVE SumOver(_, _)
\* the sum of f over the set S
SumOver(f, S) ==
    IF S = {} THEN 0
    ELSE LET x == CHOOSE y \in S : TRUE IN f[x] + SumOver(f, S \ {x})

\* 40 times the squared idf of a term of both strings, and of one string
idf_sq_both == 40
idf_sq_one == 79

\* TfidfVectorizer().fit_transform([clause, standard]) raises ValueError
EmptyVocabulary(clause, standard) ==
    Tokenize(clause) = <<>> /\ Tokenize(standard) = <<>>

\* the score 0
ZeroScore == [dot |-> 0, norms |-> 1]

\* cosine_similarity(vectorizer[0:1], vectorizer[1:2])[0][0]: the cosine is
\* idf_sq_both * dot / sqrt(norms); a row of zeros gives 0
Similarity(clause, standard) ==
    LET tc == Tokenize(clause)
        ts == Tokenize(standard)
        vocabulary == {tc[i] : i \in 1..Len(tc)} \cup {ts[i] : i \in 1..Len(ts)}
        idf_sq(t) == IF Tf(tc, t) > 0 /\ Tf(ts, t) > 0 THEN idf_sq_both ELSE idf_sq_one
        dot == SumOver([t \in vocabulary |-> Tf(tc, t) * Tf(ts, t)], vocabulary)
        norm_c == SumOver([t \in vocabulary |-> Tf(tc, t) * Tf(tc, t) * idf_sq(t)], vocabulary)
        norm_s == SumOver([t \in vocabulary |-> Tf(ts, t) * Tf(ts, t) * idf_sq(t)], vocabulary)
    IN  IF dot = 0 THEN ZeroScore ELSE [dot |-> dot, norms |-> norm_c * norm_s]

\* the test had it been  similarity[0][0] >= max_similarity
GreaterOrEqual(a, b) == a.dot * a.dot * b.norms >= b.dot * b.dot * a.norms

\* similarity[0][0] > max_similarity
Greater(a, b) == a.dot * a.dot * b.norms > b.dot * b.dot * a.norms

\* floor(40000 * cosine squared), by long division
ScaledSquare(score) ==
    LET a == idf_sq_both * idf_sq_both * score.dot * score.dot
        b == score.norms
        t1 == 200 * (a % b)
        t2 == 200 * (t1 % b)
    IN  40000 * (a \div b) + 200 * (t1 \div b) + (t2 \div b)

\* round(max_similarity, 2), in hundredths
Round2(score) ==
    LET q == ScaledSquare(score)
    IN  CHOOSE r \in 0..100 :
            /\ (r > 0 => (2 * r - 1) * (2 * r - 1) <= q)
            /\ q < (2 * r + 1) * (2 * r + 1)

RECURSIVE BestMatch(_, _, _, _, _)
\* the inner loop over standard_clauses.items(), from item n
BestMatch(clause, refs, n, max_similarity, best_match) ==
    IF n > Len(refs)
    THEN [raised |-> FALSE, best_match |-> best_match, max_similarity |-> max_similarity]
    ELSE IF EmptyVocabulary(clause, refs[n].standard)
    THEN [raised |-> TRUE, best_match |-> <<>>, max_similarity |-> ZeroScore]
    ELSE LET similarity == Similarity(clause, refs[n].standard)
         IN  IF Greater(similarity, max_similarity)
             THEN BestMatch(clause, refs, n + 1, similarity, refs[n].standard)
             ELSE BestMatch(clause, refs, n + 1, max_similarity, best_match)

RECURSIVE CompareFrom(_, _, _)
\* the outer loop over clauses, from clause i
CompareFrom(cs, refs, i) ==
    IF i > Len(cs) THEN [raised |-> FALSE, comparisons |-> <<>>]
    ELSE LET best == BestMatch(cs[i], refs, 1, ZeroScore, <<>>)
             rest == CompareFrom(cs, refs, i + 1)
         IN  IF best.raised \/ rest.raised
             THEN [raised |-> TRUE, comparisons |-> <<>>]
             ELSE [raised |-> FALSE,
                   comparisons |-> <<[clause |-> cs[i],
                                      best_match |-> best.best_match,
                                      score |-> Round2(best.max_similarity)]>>
                                   \o rest.comparisons]

\* compare_with_standard_clauses(clauses, standard_clauses)
compare_with_standard_clauses(cs, refs) == CompareFrom(cs, refs, 1)

\* The words the compared strings are made of: a word, the same word in
\* capitals, another word, and a single letter (which is no token).
WordPool == {<<"a", "b">>, <<"A", "B">>, <<"c", "d">>, <<"a">>}

RECURSIVE JoinWords(_)
JoinWords(ws) ==
    IF ws = <<>> THEN <<>>
    ELSE IF Len(ws) = 1 THEN ws[1]
    ELSE ws[1] \o <<" ">> \o JoinWords(Tail(ws))

\* the strings given to the comparison
CompareTexts == {JoinWords(ws) : ws \in SeqsUpTo(WordPool, MaxWords)}

\* The module's dict standard_clauses, its four references shortened to the
\* model's words.
module_standard_clauses ==
    << [label |-> "termination",        standard |-> <<"a", "b", " ", "c", "d">>],
       [label |-> "liability",          standard |-> <<"c", "d", " ", "a", "b">>],
       [label |-> "dispute_resolution", standard |-> <<"a", "b">>],
       [label |-> "confidentiality",    standard |-> <<"c", "d", " ", "c", "d">>] >>

\* the non-empty dicts made of items of module_standard_clauses, in any order
StandardDicts ==
    LET n == Len(module_standard_clauses)
        orders == {o \in SeqsUpTo(1..n, n) :
                      o # <<>> /\ \A i, j \in 1..Len(o) : i # j => o[i] # o[j]}
    IN  {[i \in 1..Len(o) |-> module_standard_clauses[o[i]]] : o \in orders}

\* {"ref": reference_clause}
RefDict(reference_clause) == <<[label |-> "ref", standard |-> reference_clause]>>

\* In a "button" state clauses and standard_clauses hold what the handler
\* will pass: [user_clause] and {"ref": reference_clause}.
InitCompare ==
    /\ pc = "ready"
    /\ op \in {"call", "button"}
    /\ shown = "nothing"
    /\ \E user_clause \in CompareTexts :
          /\ clauses = <<user_clause>>
          /\ risky_keywords = {}
          /\ risky = <<>>
    /\ \/ op = "call" /\ standard_clauses \in StandardDicts
       \/ \E reference_clause \in CompareTexts : standard_clauses = RefDict(reference_clause)
    /\ comparisons = <<>>
    /\ IdleExtract /\ IdleSummarize /\ IdleRewrite /\ IdleApp

\* a call of compare_with_standard_clauses
CallCompare ==
    /\ pc = "ready"
    /\ op = "call"
    /\ LET r == compare_with_standard_clauses(clauses, standard_clauses)
       IN  /\ comparisons' = r.comparisons
           /\ pc' = IF r.raised THEN "raised" ELSE "done"
    /\ UNCHANGED <<op, shown, standard_clauses, extractVars, riskVars, summarizeVars,
                   rewriteVars, appVars>>

\* if st.button("Compare Clauses"): ...
PressCompareClauses ==
    /\ pc = "ready"
    /\ op = "button"
    /\ IF clauses[1] # <<>> /\ standard_clauses[1].standard # <<>>
       THEN LET r == compare_with_standard_clauses(clauses, standard_clauses)
            IN  /\ comparisons' = r.comparisons
                /\ pc' = IF r.raised THEN "raised" ELSE "done"
                /\ shown' = IF r.raised THEN "exception" ELSE "info"
       ELSE /\ comparisons' = comparisons
            /\ pc' = "done"
            /\ shown' = "error"
    /\ UNCHANGED <<op, standard_clauses, extractVars, riskVars, summarizeVars,
                   rewriteVars, appVars>>

NextCompare == CallCompare \/ PressCompareClauses

SpecCompare == InitCompare /\ [][NextCompare]_vars

(***************************************************************************)
(* rewrite_clause_with_ai and the Rewrite Clause button                    *)
(*                                                                         *)
(* The chat-completion service is external: a call either returns a        *)
(* response or raises.                                                     *)
(***************************************************************************)
\* response["choices"][0]["message"]["content"] of a call that returns
ChatResponses == {<<"a">>, <<" ", "a", "b", "\n">>}

\* rewrite_clause_with_ai(clause): build the prompt, call
\* openai.ChatCompletion.create once, return the stripped content
rewrite_clause_with_ai(clause) ==
    /\ chat_calls' = chat_calls + 1
    /\ \/ \E response \in ChatResponses :
             /\ rewritten' = Strip(response)
             /\ pc' = "done"
       \/ /\ rewritten' = rewritten
          /\ pc' = "raised"

InitRewrite ==
    /\ pc = "ready"
    /\ op \in {"call", "button"}
    /\ shown = "nothing"
    /\ clause_to_rewrite \in Texts(DocAlphabet, MaxClauseLen)
    /\ chat_calls = 0
    /\ rewritten = <<>>
    /\ IdleExtract /\ IdleRisk /\ IdleSummarize /\ IdleCompare /\ IdleApp

\* a call of rewrite_clause_with_ai
CallRewrite ==
    /\ pc = "ready"
    /\ op = "call"
    /\ rewrite_clause_with_ai(clause_to_rewrite)
    /\ UNCHANGED <<op, shown, clause_to_rewrite, extractVars, riskVars, summarizeVars,
                   compareVars, appVars>>

\* if st.button("Rewrite Clause"): ...
PressRewriteClause ==
    /\ pc = "ready"
    /\ op = "button"
    /\ IF clause_to_rewrite # <<>>
       THEN /\ rewrite_clause_with_ai(clause_to_rewrite)
            /\ shown' = IF pc' = "raised" THEN "exception" ELSE "success"
       ELSE /\ shown' = "error"
            /\ pc' = "done"
            /\ UNCHANGED <<chat_calls, rewritten>>
    /\ UNCHANGED <<op, clause_to_rewrite, extractVars, riskVars, summarizeVars,
                   compareVars, appVars>>

NextRewrite == CallRewrite \/ PressRewriteClause

SpecRewrite == InitRewrite /\ [][NextRewrite]_vars

(***************************************************************************)
(* The page: the uploader, Extract Clauses and Identify Risky Clauses      *)
(*                                                                         *)
(* Every interaction reruns the script; st.session_state is what survives  *)
(* from one run to the next.  clauses, risky and extracted_clauses hold    *)
(* the locals of the last run of the handler that assigns them.  The other *)
(* buttons store nothing and are modelled above.                           *)
(***************************************************************************)
AppAlphabet == {"a", "b", " ", "."}

\* the texts of the PDFs a user uploads
AppDocs == Texts(AppAlphabet, MaxDocLen)

\* raw_text = extract_text_from_pdf(uploaded_file)
raw_text == uploaded_file[1]

\* risky_keywords of the handler, shortened to the model's alphabet: two
\* that are clause keywords too ("terminate", "indemnify") and one that is not
handler_risky_keywords == {<<"a", "b">>, <<"b", "a">>, <<"a", "a">>}

RECURSIVE Flatten(_)
\* [c for sublist in clauses_dict.values() for c in sublist]
Flatten(clauses_dict) ==
    IF clauses_dict = <<>> THEN <<>>
    ELSE Head(clauses_dict).sentences \o Flatten(Tail(clauses_dict))

InitApp ==
    /\ pc = "idle"
    /\ op = "button"
    /\ shown = "please upload"
    /\ uploaded_file = <<>>
    /\ session_state = EmptySession
    /\ IdleExtract /\ IdleRisk /\ IdleSummarize /\ IdleCompare /\ IdleRewrite

\* the user uploads a PDF or replaces the uploaded one: a run with no button
UploadFile ==
    /\ \E doc \in AppDocs : uploaded_file' = <<doc>>
    /\ pc' = "uploaded"
    /\ shown' = "text"
    /\ UNCHANGED <<op, session_state, extractVars, riskVars, summarizeVars,
                   compareVars, rewriteVars>>

\* the user removes the uploaded PDF
RemoveFile ==
    /\ uploaded_file # <<>>
    /\ uploaded_file' = <<>>
    /\ pc' = "idle"
    /\ shown' = "please upload"
    /\ UNCHANGED <<op, session_state, extractVars, riskVars, summarizeVars,
                   compareVars, rewriteVars>>

\* if st.button("Extract Clauses"): ...
PressExtractClauses ==
    /\ uploaded_file # <<>>
    /\ LET clauses_dict == extract_clauses(raw_text)
       IN  /\ extracted_clauses' = clauses_dict
           /\ session_state' = [session_state EXCEPT !.has_clauses = TRUE,
                                                     !.clauses = Flatten(clauses_dict)]
    /\ text' = raw_text
    /\ pc' = "extracted"
    /\ shown' = "clauses"
    /\ UNCHANGED <<op, uploaded_file, riskVars, summarizeVars, compareVars, rewriteVars>>

\* st.session_state.get("clauses", [])
SessionClauses == IF session_state.has_clauses THEN session_state.clauses ELSE <<>>

\* if st.button("Identify Risky Clauses"): ...
PressIdentifyRisky ==
    /\ uploaded_file # <<>>
    /\ risky_keywords' = handler_risky_keywords
    /\ clauses' = SessionClauses
    /\ risky' = find_risky_clauses(SessionClauses, handler_risky_keywords)
    /\ IF risky' # <<>>
       THEN /\ session_state' = [session_state EXCEPT !.has_risky = TRUE, !.risky = risky']
            /\ shown' = "warnings"
       ELSE /\ session_state' = session_state
            /\ shown' = "no risky clauses"
    /\ pc' = "identified"
    /\ UNCHANGED <<op, uploaded_file, extractVars, summarizeVars, compareVars, rewriteVars>>

NextApp == UploadFile \/ RemoveFile \/ PressExtractClauses \/ PressIdentifyRisky

SpecApp == InitApp /\ [][NextApp]_vars

(***************************************************************************)
(* Properties.                                                             *)
(***************************************************************************)
\* the j-th smallest element of a set of integers
NthOf(S, j) == CHOOSE x \in S : Cardinality({y \in S : y < x}) = j - 1

\* the subsequence of s at the positions idx, in order
SubsequenceAt(s, idx) == [j \in 1..Cardinality(idx) |-> s[NthOf(idx, j)]]

Range(s) == {s[i] : i \in 1..Len(s)}

\* k occurs in s when letter case is ignored
OccursIgnoringCase(k, s) ==
    \E off \in 0..(Len(s) - Len(k)) :
        \A j \in 1..Len(k) : LowerChar(k[j]) = LowerChar(s[off + j])

\* C1: find_risky_clauses returns exactly the order-preserving subsequence of
\* its input made of the clauses that contain at least one risk keyword as a
\* case-insensitive substring, and returns the empty list for the empty input.
C1_RiskySubsequence ==
    pc = "done" =>
        LET idx == {i \in 1..Len(clauses) :
                       \E k \in risky_keywords : OccursIgnoringCase(k, clauses[i])}
        IN  /\ risky = SubsequenceAt(clauses, idx)
            /\ (clauses = <<>> => risky = <<>>)

\* C1 witness: a call on two clauses of different case whose second clause
\* only is returned, matched through a keyword of the other case.
C1_Witness ==
    /\ pc = "done"
    /\ Len(clauses) = 2
    /\ risky = <<clauses[2]>>
    /\ clauses[1] # clauses[2]
    /\ risky_keywords = {<<"B">>}

\* the pieces of t obtained by cutting it after every sentence-ending mark
\* that is followed by one of the characters followers
PiecesCutAfter(t, followers) ==
    LET cuts == {i \in 1..(Len(t) - 1) :
                    t[i] \in {".", "!", "?"} /\ t[i + 1] \in followers}
        n == Cardinality(cuts)
        start(k) == IF k = 1 THEN 1 ELSE NthOf(cuts, k - 1) + 1
        end(k) == IF k = n + 1 THEN Len(t) ELSE NthOf(cuts, k)
    IN  [k \in 1..(n + 1) |-> SubSeq(t, start(k), end(k))]

\* the trimmed pieces that contain a keyword of keywords, in document order
TrimmedMatches(pieces, keywords) ==
    LET idx == {i \in 1..Len(pieces) :
                   \E k \in keywords : OccursIgnoringCase(k, Strip(pieces[i]))}
        hits == SubsequenceAt(pieces, idx)
    IN  [j \in 1..Len(hits) |-> Strip(hits[j])]

\* the mapping that lists, for every category with a match, those matches
MappingOf(pieces) ==
    LET cats == {n \in 1..Len(clause_keywords) :
                    TrimmedMatches(pieces, clause_keywords[n].keywords) # <<>>}
    IN  [j \in 1..Cardinality(cats) |->
            [clause |-> clause_keywords[NthOf(cats, j)].clause,
             sentences |-> TrimmedMatches(pieces,
                               clause_keywords[NthOf(cats, j)].keywords)]]

\* whether the result has the key category
HasKey(result, category) == \E i \in 1..Len(result) : result[i].clause = category

\* the list the result holds under the key category
ListUnder(result, category) ==
    IF HasKey(result, category)
    THEN result[CHOOSE i \in 1..Len(result) : result[i].clause = category].sentences
    ELSE <<>>

\* C2: a sentence (a piece of the document between two cuts of the split) that
\* contains a keyword of category A and a keyword of another category B is
\* listed, trimmed and otherwise unchanged, under both keys A and B.
C2_SentenceInBothCategories ==
    pc = "done" =>
        LET pieces == PiecesCutAfter(text, {" "})
        IN  \A i \in 1..Len(pieces) : \A a, b \in 1..Len(clause_keywords) :
                (/\ a # b
                 /\ \E k \in clause_keywords[a].keywords : OccursIgnoringCase(k, pieces[i])
                 /\ \E k \in clause_keywords[b].keywords : OccursIgnoringCase(k, pieces[i]))
                => LET la == ListUnder(extracted_clauses, clause_keywords[a].clause)
                       lb == ListUnder(extracted_clauses, clause_keywords[b].clause)
                   IN  /\ HasKey(extracted_clauses, clause_keywords[a].clause)
                       /\ HasKey(extracted_clauses, clause_keywords[b].clause)
                       /\ Strip(pieces[i]) \in Range(la)
                       /\ Strip(pieces[i]) \in Range(lb)

\* C2 witness: a document whose second sentence starts with a newline, holds
\* keywords of Termination and Payment, and is listed trimmed under both.
C2_Witness ==
    /\ pc = "done"
    /\ text = <<"?", " ", "\n", "A", "b">>
    /\ ListUnder(extracted_clauses, "Termination") = << <<"A", "b">> >>
    /\ ListUnder(extracted_clauses, "Payment") = << <<"A", "b">> >>

\* C9 as stated: the result lists, per category, the trimmed sentences with a
\* keyword, where a sentence ends at every '.', '!' or '?' that is followed by
\* whitespace, be it a space, a tab or a newline.
C9_CutAtAnyWhitespace ==
    pc = "done" =>
        extracted_clauses = MappingOf(PiecesCutAfter(text, {" ", "\t", "\n"}))

\* C9 amended: the result lists, per category and in document order, the
\* trimmed sentences with a keyword, where a sentence ends at every '.', '!'
\* or '?' that is followed by a space character; a tab or a newline after the
\* mark does not end the sentence.  A sentence without a keyword is in no
\* list and the empty document yields the empty mapping.
C9_CutAtSpaces ==
    pc = "done" =>
        /\ extracted_clauses = MappingOf(PiecesCutAfter(text, {" "}))
        /\ (text = <<>> => extracted_clauses = <<>>)

\* C9 witness: a mark followed by a newline does not cut, a mark followed by a
\* space does, and the sentence without a keyword is dropped.
C9_Witness ==
    /\ pc = "done"
    /\ text = <<".", " ", "?", "\n", "b">>
    /\ extracted_clauses =
           << [clause |-> "Payment", sentences |-> << <<"?", "\n", "b">> >>] >>

\* C3: a call of summarize_text that returns has called the summarizer exactly
\* ceil(L/1000) times, on consecutive non-overlapping chunks that cover the
\* text, all of length 1000 except possibly a shorter last one, in chunk
\* order, and returns the summaries joined by single spaces in that order
\* (the empty string after no call when L = 0).
C3_ChunkedSummary ==
    pc = "done" =>
        LET n == Len(summarizer_calls)
            chunk(k) == summarizer_calls[k].chunk
        IN  /\ n * 1000 >= text_len
            /\ (n > 0 => (n - 1) * 1000 < text_len)
            /\ \A k \in 1..n : summarizer_calls[k].ok
            /\ (n > 0 => chunk(1).from = 0 /\ chunk(n).to = text_len)
            /\ \A k \in 1..(n - 1) :
                   chunk(k).to = chunk(k + 1).from /\ chunk(k).to - chunk(k).from = 1000
            /\ (n > 0 => chunk(n).to - chunk(n).from \in 1..1000)
            /\ Len(summary) = (IF n = 0 THEN 0 ELSE 2 * n - 1)
            /\ \A k \in 1..n : summary[2 * k - 1] = SummaryOf(chunk(k))
            /\ \A k \in 1..(n - 1) : summary[2 * k] = Space
            /\ (text_len = 0 => n = 0 /\ summary = <<>>)

\* C3 witness: a text of 2500 characters summarized in chunks of 1000, 1000
\* and 500 characters.
C3_Witness ==
    /\ pc = "done"
    /\ text_len = 2500
    /\ Len(summarizer_calls) = 3
    /\ summarizer_calls[3].chunk = [from |-> 2000, to |-> 2500]
    /\ Len(summary) = 5

\* C7: when the summarizer fails on a chunk, the failure ends the call: the
\* failed call is the last one made (later chunks are not sent and no chunk
\* is sent twice), no summary is returned or shown, and nothing more happens.
C7_FailurePropagates ==
    /\ \A k \in 1..Len(summarizer_calls) :
          ~summarizer_calls[k].ok =>
              /\ k = Len(summarizer_calls)
              /\ pc = "raised"
              /\ summary = <<>>
              /\ shown # "summary"
              /\ ~ENABLED NextSummarize
    /\ \A j, k \in 1..Len(summarizer_calls) :
          j < k => summarizer_calls[j].chunk.from < summarizer_calls[k].chunk.from

\* C7 witness: the button's call fails on the second of three chunks, after
\* the first chunk was summarized.
C7_Witness ==
    /\ pc = "raised"
    /\ op = "button"
    /\ text_len = 2500
    /\ Len(summarizer_calls) = 2
    /\ Len(results) = 1
    /\ shown = "exception"

\* a is a smaller score than b
ScoreLess(a, b) == a.dot * a.dot * b.norms < b.dot * b.dot * a.norms

\* the pairwise score of the compared clause and the n-th reference
PairScore(n) == Similarity(clauses[1], standard_clauses[n].standard)

\* the first reference, in the dict's order, whose pairwise score is the maximum
FirstMaximum ==
    MinOf({n \in 1..Len(standard_clauses) :
              \A m \in 1..Len(standard_clauses) : ~ScoreLess(PairScore(n), PairScore(m))})

\* compare_with_standard_clauses was called and has ended
CompareEnded ==
    /\ pc \in {"done", "raised"}
    /\ op = "button" => clauses[1] # <<>> /\ standard_clauses[1].standard # <<>>

\* C5 as stated: the call returns, for the clause, the first reference that
\* attains the maximum pairwise score, with that score rounded to 2 decimals,
\* whatever the scores are (all equal included).
C5_FirstMaximumReturned ==
    (CompareEnded /\ pc = "done") =>
        /\ comparisons[1].best_match = standard_clauses[FirstMaximum].standard
        /\ comparisons[1].score = Round2(PairScore(FirstMaximum))

\* C5 amended: when some pairwise score is greater than 0 the call returns
\* the first reference that attains the maximum, with that score rounded to
\* 2 decimals; when every pairwise score is 0 it returns the empty string as
\* the match, with score 0.
C5_FirstPositiveMaximumReturned ==
    (CompareEnded /\ pc = "done") =>
        IF PairScore(FirstMaximum).dot > 0
        THEN /\ comparisons[1].best_match = standard_clauses[FirstMaximum].standard
             /\ comparisons[1].score = Round2(PairScore(FirstMaximum))
        ELSE /\ comparisons[1].best_match = <<>>
             /\ comparisons[1].score = 0

\* C5 witness: two references tie at the maximum, 0.58, a third scores less,
\* and the first of the two in the dict's order is returned.
C5_Witness ==
    /\ pc = "done"
    /\ op = "call"
    /\ clauses = << <<"a", "b">> >>
    /\ Len(standard_clauses) = 3
    /\ standard_clauses[1].label = "confidentiality"
    /\ standard_clauses[2].label = "liability"
    /\ standard_clauses[3].label = "termination"
    /\ comparisons = <<[clause |-> <<"a", "b">>,
                        best_match |-> <<"c", "d", " ", "a", "b">>,
                        score |-> 58]>>

\* the lowercased words of two or more letters of s
WordsOf(s) ==
    {w \in {SubSeq(Lower(s), i, j) : i, j \in 1..Len(s)} :
        /\ Len(w) >= 2
        /\ \A k \in 1..Len(w) : w[k] \in Letters
        /\ \E i \in 1..Len(s) :
              /\ SubSeq(Lower(s), i, i + Len(w) - 1) = w
              /\ (i = 1 \/ s[i - 1] \notin Letters)
              /\ (i + Len(w) > Len(s) \/ s[i + Len(w)] \notin Letters)}

\* C6: for a clause and one reference, the call returns a score in [0, 1];
\* identical strings score 1.0 and strings with disjoint vocabularies 0.0.
C6_ScoreRange ==
    (CompareEnded /\ Len(standard_clauses) = 1) =>
        /\ pc = "done"
        /\ comparisons[1].score \in 0..100
        /\ (clauses[1] = standard_clauses[1].standard => comparisons[1].score = 100)
        /\ (WordsOf(clauses[1]) \cap WordsOf(standard_clauses[1].standard) = {}
               => comparisons[1].score = 0)

\* C8: when neither the clause nor the reference has a term, the call
\* completes normally and reports the score 0 for the pair.
C8_NoTermsScoreZero ==
    (/\ CompareEnded
     /\ Len(standard_clauses) = 1
     /\ WordsOf(clauses[1]) = {}
     /\ WordsOf(standard_clauses[1].standard) = {}) =>
        /\ pc = "done"
        /\ comparisons[1].score = 0

\* C4: whenever the rewrite operation has been invoked with the empty string,
\* by a call of rewrite_clause_with_ai or by the button with a blank text
\* area, no chat-completion call was made and an error was reported.
C4_EmptyClauseRejected ==
    (pc # "ready" /\ clause_to_rewrite = <<>>) =>
        /\ chat_calls = 0
        /\ (shown = "error" \/ pc = "raised")

\* C10: whenever Identify Risky Clauses has run (after clauses were extracted
\* at some time), the list it passed to find_risky_clauses is the flattened
\* output of extract_clauses on the text of the document that is uploaded
\* now; it never holds the clauses of a document uploaded before.
C10_RiskUsesCurrentDocument ==
    (pc = "identified" /\ session_state.has_clauses) =>
        clauses = Flatten(extract_clauses(raw_text))

====
